---- MODULE Spec2Model ----
(***************************************************************************)
(* Model of SmartMeetingScheduler: smart_scheduler.py (time_to_minutes,    *)
(* build_busy_map) and app.py (to_hhmm, the Flask handlers index,          *)
(* handle_edit_prompt, edit, save_edit, process and the override store     *)
(* temp_sheets with clear_expired_temp_sheets).                            *)
(*                                                                         *)
(* Representation.  A Python str is a sequence of one-character strings.   *)
(* An optional value is a tuple: <<>> is None, <<v>> is the value v.       *)
(* A spreadsheet cell is a record tagged by "kind":                        *)
(*   nan   - NaN / None / NaT              (pd.isna is true)               *)
(*   time  - pd.Timestamp or datetime.time with fields hour, minute        *)
(*   str   - a Python str, field chars                                     *)
(*   float - a number num/den (den > 0), exactly representable             *)
(* A DataFrame is [columns |-> set of names, rows |-> sequence of          *)
(* functions from column name to cell].                                    *)
(***************************************************************************)
EXTENDS Integers, Sequences, FiniteSets, TLC

----------------------------------------------------------------------------
(* Characters and elementary str operations                                *)

None == <<>>

Some(v) == <<v>>

Digits == <<"0", "1", "2", "3", "4", "5", "6", "7", "8", "9">>

IsDigit(c) == \E i \in 1..10 : Digits[i] = c

DigitVal(c) == (CHOOSE i \in 1..10 : Digits[i] = c) - 1

AllDigits(s) == \A i \in 1..Len(s) : IsDigit(s[i])

RECURSIVE NumVal(_)
NumVal(s) ==
    IF s = <<>> THEN 0
    ELSE 10 * NumVal(SubSeq(s, 1, Len(s) - 1)) + DigitVal(s[Len(s)])

RECURSIVE Pow10(_)
Pow10(k) == IF k = 0 THEN 1 ELSE 10 * Pow10(k - 1)

\* str.strip(): leading and trailing blanks removed
RECURSIVE lstrip(_)
lstrip(s) == IF s # <<>> /\ s[1] = " " THEN lstrip(Tail(s)) ELSE s

RECURSIVE rstrip(_)
rstrip(s) ==
    IF s # <<>> /\ s[Len(s)] = " " THEN rstrip(SubSeq(s, 1, Len(s) - 1)) ELSE s

strip(s) == rstrip(lstrip(s))

\* str.split(sep): the pieces of s between the occurrences of sep
RECURSIVE SplitAcc(_, _, _, _)
SplitAcc(s, sep, cur, acc) ==
    IF s = <<>> THEN Append(acc, cur)
    ELSE IF s[1] = sep THEN SplitAcc(Tail(s), sep, <<>>, Append(acc, cur))
    ELSE SplitAcc(Tail(s), sep, Append(cur, s[1]), acc)

Split(s, sep) == SplitAcc(s, sep, <<>>, <<>>)

\* str(n) for an integer 0 <= n
RECURSIVE IntToStr(_)
IntToStr(n) ==
    IF n < 10 THEN <<Digits[n + 1]>>
    ELSE Append(IntToStr(n \div 10), Digits[(n % 10) + 1])

\* f"{m:02d}" for 0 <= m
Fmt02d(m) == IF m < 10 THEN <<"0">> \o IntToStr(m) ELSE IntToStr(m)

\* int(s) of a str: optional sign, then decimal digits; None is ValueError
IntOfStripped(t, body) ==
    IF body # <<>> /\ AllDigits(body)
    THEN Some(IF t[1] = "-" THEN 0 - NumVal(body) ELSE NumVal(body))
    ELSE None

SignedBody(t) == IF t # <<>> /\ t[1] \in {"-", "+"} THEN Tail(t) ELSE t

IntOfSigned(t) == IntOfStripped(t, SignedBody(t))

ParseInt(s) == IntOfSigned(strip(s))

\* int(x) of a rational a/b with b > 0: truncation towards zero
TruncDiv(a, b) == IF a >= 0 THEN a \div b ELSE 0 - ((0 - a) \div b)

----------------------------------------------------------------------------
(* datetime.strptime: each directive is a regular expression over a        *)
(* maximal run of digits delimited by the literal that follows it          *)

\* a numeric directive of one or two digits with value in lo..hi
Field(s, lo, hi) ==
    IF Len(s) \in 1..2 /\ AllDigits(s) /\ NumVal(s) >= lo /\ NumVal(s) <= hi
    THEN Some(NumVal(s))
    ELSE None

\* %p: the two letters of AM or PM in any case, "" when p is neither
Meridiem(p) ==
    IF p \in {<<"A", "M">>, <<"a", "m">>, <<"A", "m">>, <<"a", "M">>} THEN "AM"
    ELSE IF p \in {<<"P", "M">>, <<"p", "m">>, <<"P", "m">>, <<"p", "M">>} THEN "PM"
    ELSE ""

\* dt.hour of the parsed hour field: %I with %p (half is "AM" or "PM"), or %H
HourOfDay(h, half) ==
    IF half = "AM" THEN (IF h = 12 THEN 0 ELSE h)
    ELSE IF half = "PM" THEN (IF h = 12 THEN 12 ELSE h + 12)
    ELSE h

\* dt.hour * 60 + dt.minute of the parsed fields, None when one did not match
ClockValue(h, m, secOk, half) ==
    IF h = None \/ m = None \/ ~secOk THEN None
    ELSE Some(HourOfDay(h[1], half) * 60 + m[1])

\* the ":"-separated fields f of a clock text with n fields, hours in lo..hi
ClockFields(f, n, lo, hi, half) ==
    IF Len(f) # n THEN None
    ELSE ClockValue(Field(f[1], lo, hi), Field(f[2], 0, 59),
                    n = 2 \/ Field(f[n], 0, 59) # None, half)

\* "%H:%M" (withSec = FALSE) and "%H:%M:%S" (withSec = TRUE)
Strptime24(s, withSec) ==
    ClockFields(Split(s, ":"), IF withSec THEN 3 ELSE 2, 0, 23, "")

\* the part before %p: the clock text, then at least one blank
Clock12(rest, half, withSec) ==
    IF half = "" \/ rest = <<>> THEN None
    ELSE IF rest[Len(rest)] # " " THEN None
    ELSE ClockFields(Split(rstrip(rest), ":"), IF withSec THEN 3 ELSE 2, 1, 12, half)

\* "%I:%M %p" (withSec = FALSE) and "%I:%M:%S %p" (withSec = TRUE)
Strptime12(s, withSec) ==
    IF Len(s) < 2 THEN None
    ELSE Clock12(SubSeq(s, 1, Len(s) - 2),
                 Meridiem(SubSeq(s, Len(s) - 1, Len(s))), withSec)

\* the value <<num, den>> of sign, integer part ip and fraction part fp
Decimal(neg, ip, fp) ==
    IF AllDigits(ip) /\ AllDigits(fp) /\ (ip # <<>> \/ fp # <<>>)
    THEN Some(<<(IF neg THEN 0 - 1 ELSE 1) * (NumVal(ip) * Pow10(Len(fp)) + NumVal(fp)),
                Pow10(Len(fp))>>)
    ELSE None

DecimalParts(neg, parts) ==
    IF Len(parts) = 1 THEN Decimal(neg, parts[1], <<>>)
    ELSE IF Len(parts) = 2 THEN Decimal(neg, parts[1], parts[2])
    ELSE None

\* float(s) of a str: [sign] digits [. digits]; the value is <<num, den>>.
\* None is ValueError.  (Exponents, inf and nan are not in the modelled
\* input alphabet; inf and nan end in None as well: int() raises on them.)
FloatOfStripped(t) == DecimalParts(t # <<>> /\ t[1] = "-", Split(SignedBody(t), "."))

ParseFloat(s) == FloatOfStripped(strip(s))

----------------------------------------------------------------------------
(* smart_scheduler.py                                                      *)

DayMinutes == 24 * 60

NaN == [kind |-> "nan"]

TimeCell(h, m) == [kind |-> "time", hour |-> h, minute |-> m]

Str(s) == [kind |-> "str", chars |-> s]

Float(n, d) == [kind |-> "float", num |-> n, den |-> d]

\* the first format of the loop that parses wins
FirstParsed(a, b, c, d) ==
    IF a # None THEN a ELSE IF b # None THEN b ELSE IF c # None THEN c ELSE d

StrptimeFormats(s) ==
    FirstParsed(Strptime12(s, FALSE), Strptime12(s, TRUE),
                Strptime24(s, FALSE), Strptime24(s, TRUE))

\* int(f * 24 * 60) for f = q[1] / q[2]
FractionOfDay(q) == TruncDiv(q[1] * DayMinutes, q[2])

\* after the loop over the formats: dt is its result, f is float(t)
MinutesOfStr(t_str, dt, f) ==
    IF t_str = <<>> THEN None
    ELSE IF dt # None THEN dt
    ELSE IF f # None THEN Some(FractionOfDay(f[1]))
    ELSE None

MinutesOfStripped(t_str, chars) ==
    MinutesOfStr(t_str, StrptimeFormats(t_str), ParseFloat(chars))

time_to_minutes(t) ==
    IF t.kind = "nan" THEN None
    ELSE IF t.kind = "time" THEN Some(t.hour * 60 + t.minute)
    ELSE IF t.kind = "float" THEN Some(FractionOfDay(<<t.num, t.den>>))
    ELSE MinutesOfStripped(strip(t.chars), t.chars)

expected_columns ==
    <<"START TIME", "END TIME", "MONDAY", "TUESDAY", "WEDNESDAY", "THURSDAY",
      "FRIDAY", "SATURDAY">>

\* expected_columns[2:], the keys of busy
BusyDays == {expected_columns[i] : i \in 3..Len(expected_columns)}

\* pd.notna(lecture) and str(lecture).strip() != ""
CellPresent(c) ==
    IF c.kind = "nan" THEN FALSE
    ELSE IF c.kind = "str" THEN strip(c.chars) # <<>>
    ELSE TRUE

\* a faulty variant of StartEnd: the test end <= start is left out
StartEnd_mutNoOrder(start, end) ==
    IF start = None \/ end = None THEN None
    ELSE Some(<<start[1], end[1]>>)

\* the (start, end) of a row, or None when the row is skipped
StartEnd(start, end) ==
    IF start = None \/ end = None \/ end[1] <= start[1] THEN None
    ELSE Some(<<start[1], end[1]>>)

RowInterval(row) ==
    StartEnd(time_to_minutes(row["START TIME"]), time_to_minutes(row["END TIME"]))

\* the inner loop "for day in busy.keys()" for a row with interval iv
AppendRow(busy, row, iv) ==
    IF iv = None THEN busy
    ELSE [day \in BusyDays |->
             IF CellPresent(row[day]) THEN Append(busy[day], iv[1]) ELSE busy[day]]

\* the loop over df.iterrows()
RECURSIVE BusyRows(_, _)
BusyRows(rows, busy) ==
    IF rows = <<>> THEN busy
    ELSE BusyRows(Tail(rows), AppendRow(busy, Head(rows), RowInterval(Head(rows))))

\* None is the ValueError for a sheet that misses a required column
build_busy_map(df) ==
    IF ~(\A i \in 1..Len(expected_columns) : expected_columns[i] \in df.columns)
    THEN None
    ELSE Some(BusyRows(df.rows, [day \in BusyDays |-> <<>>]))

----------------------------------------------------------------------------
(* app.py: formatting, dates                                               *)

Invalid == <<"I", "n", "v", "a", "l", "i", "d">>

\* a faulty variant of Hour12: noon is taken for midnight
Hour12_mutNoon(h) == IF 1 <= h /\ h < 12 THEN h ELSE IF h > 12 THEN h - 12 ELSE 0

\* the 12-hour clock hour of to_hhmm
Hour12(h) == IF 1 <= h /\ h <= 12 THEN h ELSE IF h > 12 THEN h - 12 ELSE 12

HhMm(h, m) ==
    IntToStr(Hour12(h)) \o <<":">> \o Fmt02d(m) \o <<" ">>
        \o (IF h < 12 THEN <<"A", "M">> ELSE <<"P", "M">>)

\* minutes is None or Some(n)
to_hhmm(minutes) ==
    IF minutes = None THEN Invalid ELSE HhMm(minutes[1] \div 60, minutes[1] % 60)

join_time(hour, minute, ampm) == hour \o <<":">> \o minute \o <<" ">> \o ampm

IsLeap(y) == (y % 4 = 0) /\ ((y % 100 # 0) \/ (y % 400 = 0))

DaysInMonth(y, m) ==
    IF m = 2 THEN (IF IsLeap(y) THEN 29 ELSE 28)
    ELSE IF m \in {4, 6, 9, 11} THEN 30
    ELSE 31

RECURSIVE DaysBeforeMonth(_, _)
DaysBeforeMonth(y, m) ==
    IF m = 1 THEN 0 ELSE DaysBeforeMonth(y, m - 1) + DaysInMonth(y, m - 1)

\* date.toordinal()
Ordinal(y, m, d) ==
    LET p == y - 1
    IN  p * 365 + (p \div 4) - (p \div 100) + (p \div 400)
        + DaysBeforeMonth(y, m) + d

\* the date of the fields %Y, %m, %d as an ordinal
DateValue(yOk, y, m, d) ==
    IF yOk /\ m # None /\ d # None
    THEN (IF d[1] <= DaysInMonth(y, m[1]) THEN Some(Ordinal(y, m[1], d[1])) ELSE None)
    ELSE None

DateFields(f) ==
    IF Len(f) # 3 THEN None
    ELSE DateValue(Len(f[1]) = 4 /\ AllDigits(f[1]) /\ NumVal(f[1]) >= 1,
                   NumVal(f[1]), Field(f[2], 1, 12), Field(f[3], 1, 31))

\* datetime.strptime(s, '%Y-%m-%d').date() as an ordinal; None is ValueError
ParseDate(s) == DateFields(Split(s, "-"))

WeekdayNames ==
    <<"MONDAY", "TUESDAY", "WEDNESDAY", "THURSDAY", "FRIDAY", "SATURDAY",
      "SUNDAY">>

\* date_obj.strftime('%A').upper()
DayName(ordinal) == WeekdayNames[((ordinal + 6) % 7) + 1]

----------------------------------------------------------------------------
(* app.py: the search of process()                                         *)

Step == 15

EXTEND_MINUTES == 120

TopN == 5

\* list(range(lo, hi, Step))
RangeSeq(lo, hi) ==
    LET n == IF hi <= lo THEN 0 ELSE (hi - lo + Step - 1) \div Step
    IN  [k \in 1..n |-> lo + (k - 1) * Step]

\* a faulty variant of Conflict: the slot start is compared with s, so a
\* slot that begins inside a busy interval passes
Conflict_mutStart(start, end, s, e) == ~(end <= s \/ start >= s)

\* not (end <= s or start >= e)
Conflict(start, end, s, e) == ~(end <= s \/ start >= e)

\* busy_map[t].get(day, [])
BusyOf(busy_map, t, day) ==
    IF day \in DOMAIN busy_map[t] THEN busy_map[t][day] ELSE <<>>

\* the two nested loops with break: some interval of some teacher conflicts
HasConflict(start, end, selected_teachers, busy_map, day) ==
    \E i \in 1..Len(selected_teachers) :
        LET ivs == BusyOf(busy_map, selected_teachers[i], day)
        IN  \E j \in 1..Len(ivs) : Conflict(start, end, ivs[j][1], ivs[j][2])

\* a faulty variant of ScanStarts: the range stops one short, so the slot
\* that ends exactly at hi is never tried
ScanStarts_mutStop(lo, hi, duration, selected_teachers, busy_map, day) ==
    LET Free(start) ==
            ~HasConflict(start, start + duration, selected_teachers, busy_map, day)
    IN  SelectSeq(RangeSeq(lo, hi - duration), Free)

\* the starts of the conflict-free slots among range(lo, hi - duration + 1, 15)
ScanStarts(lo, hi, duration, selected_teachers, busy_map, day) ==
    LET Free(start) ==
            ~HasConflict(start, start + duration, selected_teachers, busy_map, day)
    IN  SelectSeq(RangeSeq(lo, hi - duration + 1), Free)

\* list.sort(key=lambda x: x[0]): stable, by the first component
RECURSIVE InsertByFirst(_, _)
InsertByFirst(x, sorted) ==
    IF sorted = <<>> THEN <<x>>
    ELSE IF Head(sorted)[1] <= x[1]
         THEN <<Head(sorted)>> \o InsertByFirst(x, Tail(sorted))
         ELSE <<x>> \o sorted

RECURSIVE SortAcc(_, _)
SortAcc(seq, acc) ==
    IF seq = <<>> THEN acc ELSE SortAcc(Tail(seq), InsertByFirst(Head(seq), acc))

SortByFirst(seq) == SortAcc(seq, <<>>)

\* candidates[:5]
FirstN(seq, n) == SubSeq(seq, 1, IF Len(seq) < n THEN Len(seq) ELSE n)

\* distance = abs(center_slot - center_user), kept doubled: the midpoints are
\* whole or half minutes, which the float division by 2 represents exactly
Distance2(start, end, ws_min, we_min) ==
    LET d == (start + end) - (ws_min + we_min)
    IN  IF d < 0 THEN 0 - d ELSE d

\* the slots [(start, start + duration)] of the starts found
Slots(starts, duration) ==
    [k \in 1..Len(starts) |-> <<starts[k], starts[k] + duration>>]

\* section 1: result_list
PrimarySearch(ws_min, we_min, duration, selected_teachers, busy_map, day) ==
    Slots(ScanStarts(ws_min, we_min, duration, selected_teachers, busy_map, day),
          duration)

\* candidates -> closest_5, sorted by start
Unranked(ranked) == [k \in 1..Len(ranked) |-> <<ranked[k][2], ranked[k][3]>>]

\* a faulty variant of ClosestFive: the sort by distance is left out
ClosestFive_mutNoRank(candidates) ==
    SortByFirst(Unranked(FirstN(candidates, TopN)))

ClosestFive(candidates) ==
    SortByFirst(Unranked(FirstN(SortByFirst(candidates), TopN)))

\* candidates.append((distance, start, end)) for the starts found
Candidates(starts, duration, ws_min, we_min) ==
    [k \in 1..Len(starts) |->
        <<Distance2(starts[k], starts[k] + duration, ws_min, we_min),
          starts[k], starts[k] + duration>>]

\* max(0, ws_min - EXTEND_MINUTES)
SearchStart(ws_min) ==
    IF ws_min - EXTEND_MINUTES < 0 THEN 0 ELSE ws_min - EXTEND_MINUTES

\* min(24*60, we_min + EXTEND_MINUTES)
SearchEnd(we_min) ==
    IF we_min + EXTEND_MINUTES > DayMinutes THEN DayMinutes
    ELSE we_min + EXTEND_MINUTES

\* section 2: alternative_slots, run when result_list is empty
AlternativeSearch(ws_min, we_min, duration, selected_teachers, busy_map, day) ==
    ClosestFive(Candidates(
        ScanStarts(SearchStart(ws_min), SearchEnd(we_min), duration,
                   selected_teachers, busy_map, day),
        duration, ws_min, we_min))

\* the "Format results" comprehensions
FormatSlots(slots) ==
    [k \in 1..Len(slots) |->
        [Start |-> to_hhmm(Some(slots[k][1])), End |-> to_hhmm(Some(slots[k][2]))]]

----------------------------------------------------------------------------
(* The timetables loaded at start-up and the request inputs                *)

MaxAdvance == 2

MaxOverrides == 1

AllColumns == {expected_columns[i] : i \in 1..Len(expected_columns)}

\* a spreadsheet row over `columns`: start, end and the marked weekday cells
Row(columns, start, end, marks) ==
    [c \in columns |->
        IF c = "START TIME" THEN start
        ELSE IF c = "END TIME" THEN end
        ELSE IF c \in DOMAIN marks THEN marks[c]
        ELSE NaN]

Lecture == Str(<<"M", "A", "1", "0", "1">>)

Blank == Str(<<" ", " ">>)

SheetA ==
    [columns |-> AllColumns,
     rows |-> <<
        Row(AllColumns, TimeCell(0, 0), TimeCell(0, 15), "MONDAY" :> Lecture),
        Row(AllColumns, TimeCell(0, 45), TimeCell(1, 15), "MONDAY" :> Lecture),
        Row(AllColumns, Str(<<"9", ":", "0", "0", " ", "A", "M">>),
            Str(<<"1", "0", ":", "0", "0", " ", "A", "M">>),
            ("MONDAY" :> Lecture) @@ ("TUESDAY" :> Blank)),
        Row(AllColumns, TimeCell(19, 0), TimeCell(23, 0), "MONDAY" :> Lecture),
        Row(AllColumns, Str(<<"1", "1", ":", "0", "0">>),
            Str(<<"1", "0", ":", "0", "0">>), "MONDAY" :> Lecture) >>]

SheetB ==
    [columns |-> AllColumns,
     rows |-> <<
        Row(AllColumns, Str(<<"1", "0", ":", "0", "0">>),
            Str(<<"1", "1", ":", "0", "0", ":", "0", "0">>),
            ("MONDAY" :> Lecture) @@ ("WEDNESDAY" :> Float(1, 1))),
        Row(AllColumns, Float(0 - 1, 2), Float(3, 2), "SATURDAY" :> Lecture),
        Row(AllColumns, NaN, TimeCell(12, 0), "MONDAY" :> Lecture),
        Row(AllColumns, TimeCell(10, 0), TimeCell(11, 0), "MONDAY" :> Lecture) >>]

SheetC ==
    [columns |-> AllColumns \ {"END TIME"},
     rows |-> <<
        Row(AllColumns \ {"END TIME"}, TimeCell(9, 0), NaN, "MONDAY" :> Lecture) >>]

\* sheets = load_sheets(): one sheet per faculty
sheets == ("A" :> SheetA) @@ ("B" :> SheetB) @@ ("C" :> SheetC)

\* the faculty names a request may carry; "Z" has no sheet
FacultyInputs == {"A", "B", "C", "Z"}

Monday == <<"2", "0", "2", "6", "-", "1", "1", "-", "0", "2">>

Sunday == <<"2", "0", "2", "6", "-", "1", "1", "-", "0", "8">>

Wednesday == <<"2", "0", "2", "6", "-", "1", "1", "-", "0", "4">>

BadDate == <<"2", "0", "2", "6", "-", "1", "3", "-", "0", "1">>

AM == <<"A", "M">>

PM == <<"P", "M">>

\* the six window fields of the form
Window(sh, sm, sa, eh, em, ea) ==
    [window_start_hour |-> sh, window_start_minute |-> sm, window_start_ampm |-> sa,
     window_end_hour |-> eh, window_end_minute |-> em, window_end_ampm |-> ea]

WorkDay == Window(<<"9">>, <<"0", "0">>, AM, <<"5">>, <<"0", "0">>, PM)

ValidWindows ==
    { WorkDay,
      Window(<<"9">>, <<"0", "0">>, AM, <<"1", "0">>, <<"0", "0">>, AM),
      Window(<<"1", "2">>, <<"1", "0">>, AM, <<"1">>, <<"1", "0">>, AM),
      Window(<<"9">>, <<"0", "0">>, PM, <<"1", "0">>, <<"0", "0">>, PM),
      Window(<<"9">>, <<"0", "5">>, AM, <<"9">>, <<"2", "0">>, AM),
      Window(<<"1", "3">>, <<"0", "0">>, <<>>, <<"1", "5">>, <<"3", "0">>, <<>>) }

InvalidWindows ==
    { Window(<<"5">>, <<"0", "0">>, PM, <<"9">>, <<"0", "0">>, AM),
      Window(<<"1", "3">>, <<"0", "0">>, PM, <<"5">>, <<"0", "0">>, PM) }

\* request.form.to_dict(flat=False) of the index form; teacher is None when
\* the form carries no "teacher" key (no faculty ticked)
Form(teacher, duration, date, w) ==
    [teacher |-> teacher, duration |-> duration, date |-> date,
     window_start_hour |-> w.window_start_hour,
     window_start_minute |-> w.window_start_minute,
     window_start_ampm |-> w.window_start_ampm,
     window_end_hour |-> w.window_end_hour,
     window_end_minute |-> w.window_end_minute,
     window_end_ampm |-> w.window_end_ampm]

FormInputs ==
    { Form(Some(t), d, Monday, w) :
        t \in {<<"A">>, <<"A", "B">>}, d \in {<<"3", "0">>, <<"6", "0">>},
        w \in ValidWindows }
    \cup { Form(Some(<<"B", "A">>), <<"4", "5">>, Wednesday, w) : w \in ValidWindows }
    \cup { Form(t, <<"3", "0">>, Monday, WorkDay) :
             t \in {None, Some(<<"C">>), Some(<<"Z">>), Some(<<"A", "C">>)} }
    \cup { Form(Some(<<"A">>), d, Monday, WorkDay) :
             d \in {<<"0">>, <<"a", "b", "c">>} }
    \cup { Form(Some(<<"A">>), <<"3", "0">>, d, WorkDay) : d \in {Sunday, BadDate} }
    \cup { Form(Some(<<"A">>), <<"3", "0">>, Monday, w) : w \in InvalidWindows }

\* the forms posted to / in the interleavings of the handlers
HandlerForms ==
    { Form(Some(<<"A">>), <<"3", "0">>, Monday, WorkDay),
      Form(Some(<<"A", "C">>), <<"3", "0">>, Monday, WorkDay),
      Form(None, <<"3", "0">>, Monday, WorkDay),
      Form(Some(<<"A">>), <<"0">>, Monday, WorkDay),
      Form(Some(<<"A">>), <<"3", "0">>, BadDate, WorkDay) }

\* one item of the save_edit form: a cell "<col>_<idx>" or a "delete_<idx>"
CellItem(col, idx, value) == [col |-> col, idx |-> idx, value |-> value]

DeleteItem(idx) == [col |-> "delete", idx |-> idx, value |-> <<>>]

EditInputs ==
    { << CellItem("START TIME", "0", <<"9", ":", "0", "0", " ", "A", "M">>),
         CellItem("END TIME", "0", <<"5", ":", "0", "0", " ", "P", "M">>),
         CellItem("MONDAY", "0", <<"L", "a", "b">>),
         CellItem("START TIME", "1", <<"8", ":", "0", "0", " ", "A", "M">>),
         CellItem("END TIME", "1", <<"9", ":", "0", "0", " ", "A", "M">>),
         CellItem("MONDAY", "1", <<"L", "a", "b">>),
         DeleteItem("1") >>,
      << CellItem("START TIME", "0", <<"1", ".", "5">>),
         CellItem("END TIME", "0", <<"2">>),
         CellItem("SATURDAY", "0", <<"L", "a", "b">>),
         CellItem("START TIME", "1", <<"1", "0", ":", "0", "0">>),
         CellItem("MONDAY", "1", <<"L", "a", "b">>) >> }

----------------------------------------------------------------------------
(* State                                                                   *)

VARIABLES
    today,        \* date.today(), as an ordinal
    temp_sheets,  \* the override store: <<faculty, date_str>> -> DataFrame
    session,      \* the Flask session: form_data and selected_teachers
    resp,         \* what the last request did and returned
    conv          \* the last to_hhmm / time_to_minutes conversion

vars == <<today, temp_sheets, session, resp, conv>>

\* the date on which the server starts
StartDay == ParseDate(Monday)[1]

EmptyStore == [key \in {} |-> NaN]

NoSession == [form_data |-> None, selected_teachers |-> None]

\* a response that carries no search result; read is the set of temp_sheets
\* keys whose lookup returned an override
Reply(handler, status, read) ==
    [handler |-> handler, status |-> status, date |-> today, read |-> read]

NoConv == [stage |-> "idle", minutes |-> None, text |-> <<>>, parsed |-> None]

Init ==
    /\ today = StartDay
    /\ temp_sheets = EmptyStore
    /\ session = NoSession
    /\ resp = Reply("start", "200", {})
    /\ conv = NoConv

----------------------------------------------------------------------------
(* clear_expired_temp_sheets and the try block of process()                *)

\* None is the ValueError of strptime on a key whose date does not parse: the
\* list comprehension raises before anything is deleted
clear_expired_temp_sheets(store, current_date) ==
    IF \E key \in DOMAIN store : ParseDate(key[2]) = None THEN None
    ELSE Some([key \in {k \in DOMAIN store : ParseDate(k[2])[1] >= current_date}
                  |-> store[key]])

\* the locals of process() when the try block is left
NoLocals ==
    [error |-> None, stage |-> "done", selected_teachers |-> <<>>, duration |-> 0,
     day |-> "", ws_min |-> 0, we_min |-> 0, busy_map |-> <<>>, dfs |-> <<>>,
     read |-> {}, result_list |-> <<>>, alternative_slots |-> <<>>]

Raise(locals, stage, message) ==
    [locals EXCEPT !.error = Some(message), !.stage = stage]

\* busy_map[t] = build_busy_map(df) for the sheet df of t; hit says that df
\* came from temp_sheets under key
Built(locals, t, key, hit, df, busy) ==
    IF busy = None
    THEN [locals EXCEPT !.error = Some("Excel sheet missing required columns"),
                        !.stage = "build",
                        !.read = IF hit THEN @ \cup {key} ELSE @]
    ELSE [locals EXCEPT !.read = IF hit THEN @ \cup {key} ELSE @,
                        !.busy_map = (t :> busy[1]) @@ @,
                        !.dfs = (t :> df) @@ @]

BuildOne(locals, t, key, df, store) ==
    Built(locals, t, key, key \in DOMAIN store, df, build_busy_map(df))

\* df = temp_sheets.get((t, date_str), sheets[t]): the default sheets[t] is
\* evaluated first, a KeyError when t has no sheet
BuildFor(locals, t, key, store) ==
    IF t \notin DOMAIN sheets THEN Raise(locals, "build", "KeyError")
    ELSE BuildOne(locals, t, key,
                  IF key \in DOMAIN store THEN store[key] ELSE sheets[t], store)

\* the loop "for t in selected_teachers", left at the first exception
RECURSIVE BuildBusyMaps(_, _, _, _)
BuildBusyMaps(ts, date_str, store, locals) ==
    IF ts = <<>> \/ locals.error # None THEN locals
    ELSE BuildBusyMaps(Tail(ts), date_str, store,
                       BuildFor(locals, Head(ts), <<Head(ts), date_str>>, store))

\* section 2 runs when section 1 found nothing
WithResults(locals, result_list) ==
    [locals EXCEPT
        !.result_list = result_list,
        !.alternative_slots =
            IF result_list = <<>>
            THEN AlternativeSearch(locals.ws_min, locals.we_min, locals.duration,
                                   locals.selected_teachers, locals.busy_map,
                                   locals.day)
            ELSE <<>>]

\* sections 1 and 2 of the try block, after the busy maps are built
Search(locals) ==
    IF locals.error # None THEN locals
    ELSE WithResults(locals,
             PrimarySearch(locals.ws_min, locals.we_min, locals.duration,
                           locals.selected_teachers, locals.busy_map, locals.day))

\* the checks of the try block on the parsed fields, then the build and the search
Validated(form_data, store, locals, duration, date_obj, ws_min, we_min) ==
    IF locals.selected_teachers = <<>>
    THEN Raise(locals, "validate", "Please select at least one faculty.")
    ELSE IF duration = None
    THEN Raise(locals, "validate", "invalid literal for int()")
    ELSE IF duration[1] <= 0
    THEN Raise(locals, "validate", "Duration must be a positive number.")
    ELSE IF date_obj = None
    THEN Raise(locals, "validate", "time data does not match format")
    ELSE IF DayName(date_obj[1]) = "SUNDAY"
    THEN Raise(locals, "validate", "No timetable available for Sundays.")
    ELSE IF ws_min = None \/ we_min = None
    THEN Raise(locals, "validate", "Invalid time window (start must be before end).")
    ELSE IF we_min[1] <= ws_min[1]
    THEN Raise(locals, "validate", "Invalid time window (start must be before end).")
    ELSE Search(BuildBusyMaps(locals.selected_teachers, form_data.date, store,
                    [locals EXCEPT !.duration = duration[1],
                                   !.day = DayName(date_obj[1]),
                                   !.ws_min = ws_min[1], !.we_min = we_min[1]]))

\* the try block of process(); form_data["teacher"] is present
ProcessTry(form_data, store) ==
    Validated(form_data, store,
              [NoLocals EXCEPT !.selected_teachers = form_data.teacher[1]],
              ParseInt(form_data.duration),
              ParseDate(form_data.date),
              time_to_minutes(Str(join_time(form_data.window_start_hour,
                                            form_data.window_start_minute,
                                            form_data.window_start_ampm))),
              time_to_minutes(Str(join_time(form_data.window_end_hour,
                                            form_data.window_end_minute,
                                            form_data.window_end_ampm))))

\* the rows save_edit builds from its form: items grouped by idx in order of
\* first appearance, deleted idx dropped, missing cells ''
RECURSIVE IdxOrder(_, _)
IdxOrder(items, acc) ==
    IF items = <<>> THEN acc
    ELSE LET it == Head(items)
             known == \E k \in 1..Len(acc) : acc[k] = it.idx
         IN  IdxOrder(Tail(items),
                 IF it.col = "delete" \/ known THEN acc ELSE Append(acc, it.idx))

\* data[idx].get(col, ''): the last item of that key wins
RECURSIVE CellOf(_, _, _)
CellOf(items, idx, col) ==
    IF items = <<>> THEN <<>>
    ELSE LET it == items[Len(items)]
         IN  IF it.idx = idx /\ it.col = col THEN it.value
             ELSE CellOf(SubSeq(items, 1, Len(items) - 1), idx, col)

\* the idx of the "delete_<idx>" items
Deleted(items) ==
    {items[k].idx : k \in {j \in 1..Len(items) : items[j].col = "delete"}}

FrameOf(items, order) ==
    [columns |-> AllColumns,
     rows |-> [k \in 1..Len(order) |->
                 [c \in AllColumns |-> Str(CellOf(items, order[k], c))]]]

EditedFrame(items) ==
    LET Kept(idx) == idx \notin Deleted(items)
    IN  FrameOf(items, SelectSeq(IdxOrder(items, <<>>), Kept))

----------------------------------------------------------------------------
(* The request handlers.  An uncaught exception is the reply "500": Flask  *)
(* ends the request there and keeps what was written before it.            *)

\* temp_sheets[key] = df
Put(store, key, df) ==
    [k \in DOMAIN store \cup {key} |-> IF k = key THEN df ELSE store[k]]

\* GET /
IndexGet ==
    \E cleared \in {clear_expired_temp_sheets(temp_sheets, today)} :
        /\ UNCHANGED <<today, session, conv>>
        /\ IF cleared = None
           THEN /\ resp' = Reply("index", "500", {})
                /\ UNCHANGED temp_sheets
           ELSE /\ temp_sheets' = cleared[1]
                /\ resp' = Reply("index", "200", {})

\* POST / with the search form
IndexPost(form) ==
    \E cleared \in {clear_expired_temp_sheets(temp_sheets, today)} :
        /\ UNCHANGED <<today, conv>>
        /\ IF cleared = None
           THEN /\ resp' = Reply("index", "500", {})
                /\ UNCHANGED <<temp_sheets, session>>
           ELSE /\ temp_sheets' = cleared[1]
                /\ session' = [session EXCEPT !.form_data = Some(form)]
                /\ resp' = Reply("index", "200", {})

\* POST /handle_edit_prompt
HandleEditPrompt(choice) ==
    /\ UNCHANGED <<today, temp_sheets, conv>>
    /\ IF choice = "no"
       THEN /\ resp' = Reply("handle_edit_prompt", "redirect", {})
            /\ UNCHANGED session
       ELSE IF session.form_data = None
       THEN /\ resp' = Reply("handle_edit_prompt", "500", {})
            /\ UNCHANGED session
       ELSE IF session.form_data[1].teacher = None
       THEN /\ resp' = Reply("handle_edit_prompt", "500", {})
            /\ UNCHANGED session
       ELSE /\ session' = [session EXCEPT
                              !.selected_teachers = session.form_data[1].teacher]
            /\ resp' = Reply("handle_edit_prompt", "200", {})

\* POST /edit
Edit(faculty) ==
    /\ UNCHANGED <<today, temp_sheets, session, conv>>
    /\ IF session.form_data = None
       THEN resp' = Reply("edit", "500", {})
       ELSE IF faculty \notin DOMAIN sheets
       THEN resp' = Reply("edit", "404", {})
       ELSE LET key == <<faculty, session.form_data[1].date>>
            IN  resp' = Reply("edit", "200", {key} \cap DOMAIN temp_sheets)

\* POST /save_edit/<faculty>
SaveEdit(faculty, items) ==
    /\ UNCHANGED <<today, session, conv>>
    /\ IF faculty \notin DOMAIN sheets
       THEN /\ resp' = Reply("save_edit", "404", {})
            /\ UNCHANGED temp_sheets
       ELSE IF session.form_data = None
       THEN /\ resp' = Reply("save_edit", "500", {})
            /\ UNCHANGED temp_sheets
       ELSE LET key == <<faculty, session.form_data[1].date>>
            IN  /\ Cardinality(DOMAIN temp_sheets \cup {key}) <= MaxOverrides
                /\ temp_sheets' = Put(temp_sheets, key, EditedFrame(items))
                /\ resp' = Reply("save_edit",
                                 IF session.selected_teachers = None
                                 THEN "500" ELSE "200", {})

\* GET /process
Process ==
    \E cleared \in {clear_expired_temp_sheets(temp_sheets, today)} :
        /\ UNCHANGED <<today, conv>>
        /\ IF cleared = None
           THEN /\ resp' = Reply("process", "500", {})
                /\ UNCHANGED <<temp_sheets, session>>
           ELSE IF session.form_data = None
           THEN /\ temp_sheets' = cleared[1]
                /\ resp' = Reply("process", "redirect", {})
                /\ UNCHANGED session
           ELSE IF session.form_data[1].teacher = None
           THEN /\ temp_sheets' = cleared[1]
                /\ resp' = Reply("process", "500", {})
                /\ UNCHANGED session
           ELSE \E locals \in {ProcessTry(session.form_data[1], cleared[1])} :
                    /\ temp_sheets' = cleared[1]
                    /\ session' = NoSession
                    /\ resp' = [handler |-> "process", status |-> "200",
                                date |-> today, read |-> locals.read,
                                error |-> locals.error,
                                results |-> FormatSlots(locals.result_list),
                                alternatives |->
                                    FormatSlots(locals.alternative_slots),
                                locals |-> locals]

\* midnight passes
AdvanceDate ==
    /\ today < StartDay + MaxAdvance
    /\ today' = today + 1
    /\ UNCHANGED <<temp_sheets, session, resp, conv>>

Next ==
    \/ IndexGet
    \/ \E form \in HandlerForms : IndexPost(form)
    \/ \E choice \in {"yes", "no"} : HandleEditPrompt(choice)
    \/ \E faculty \in FacultyInputs : Edit(faculty)
    \/ \E faculty \in FacultyInputs, items \in EditInputs : SaveEdit(faculty, items)
    \/ Process
    \/ AdvanceDate

Spec == Init /\ [][Next]_vars

----------------------------------------------------------------------------
(* One search request: the session holds a posted form (index, then the    *)
(* edit prompt), overrides may be saved for its date, and process() runs   *)

InitSearch ==
    /\ today = StartDay
    /\ temp_sheets = EmptyStore
    /\ \E form \in FormInputs :
           session = [form_data |-> Some(form), selected_teachers |-> form.teacher]
    /\ resp = Reply("handle_edit_prompt", "200", {})
    /\ conv = NoConv

NextSearch ==
    \/ \E faculty \in FacultyInputs, items \in EditInputs : SaveEdit(faculty, items)
    \/ Process

SpecSearch == InitSearch /\ [][NextSearch]_vars

----------------------------------------------------------------------------
(* The two conversions on their own: to_hhmm, then time_to_minutes of the  *)
(* text it produced                                                        *)

MinuteInputs == {None} \cup {Some(m) : m \in 0..(DayMinutes - 1)}

Format(minutes) ==
    /\ conv.stage = "idle"
    /\ conv' = [stage |-> "formatted", minutes |-> minutes,
                text |-> to_hhmm(minutes), parsed |-> None]
    /\ UNCHANGED <<today, temp_sheets, session, resp>>

Parse ==
    /\ conv.stage = "formatted"
    /\ conv' = [conv EXCEPT !.stage = "parsed",
                            !.parsed = time_to_minutes(Str(conv.text))]
    /\ UNCHANGED <<today, temp_sheets, session, resp>>

NextConv ==
    \/ \E minutes \in MinuteInputs : Format(minutes)
    \/ Parse

SpecConv == Init /\ [][NextConv]_vars

----------------------------------------------------------------------------
(* Properties.  They read the reply of the last request: for process(),    *)
(* resp.locals holds the locals of its try block in minutes.               *)

\* process() answered with its result page
Rendered == resp.handler = "process" /\ resp.status = "200"

\* ... and the try block ran to its end
Searched == Rendered /\ resp.error = None

Elems(seq) == {seq[k] : k \in 1..Len(seq)}

\* the busy intervals of the selected participants on the weekday searched
BusyOnDay(l) ==
    UNION {Elems(l.busy_map[l.selected_teachers[i]][l.day]) :
              i \in 1..Len(l.selected_teachers)}

\* [start, end) avoids every busy interval under the half-open rule
Disjoint(start, end, busy) == \A iv \in busy : end <= iv[1] \/ start >= iv[2]

StrictlyAscending(slots) ==
    \A j, k \in 1..Len(slots) : j < k => slots[j][1] < slots[k][1]

\* C1: no slot returned by the search, primary or alternative, overlaps a
\* busy interval of a selected participant on the weekday of the request.
C1_NoSlotOverlapsBusy ==
    Searched =>
        \A slot \in Elems(resp.locals.result_list)
                        \cup Elems(resp.locals.alternative_slots) :
            Disjoint(slot[1], slot[2], BusyOnDay(resp.locals))

\* C1 witness: two participants with busy intervals, nothing free in the
\* window, alternatives returned.
C1_Witness ==
    /\ Searched
    /\ Len(resp.locals.selected_teachers) = 2
    /\ resp.locals.alternative_slots # <<>>
    /\ \E iv \in BusyOnDay(resp.locals) :
           iv[1] >= resp.locals.ws_min /\ iv[2] <= resp.locals.we_min

\* the starts ws + 15k with start + duration <= we
Lattice(lo, hi, duration) ==
    {s \in lo..(hi - duration) : (s - lo) % Step = 0}

FreeStarts(lo, hi, l) ==
    {s \in Lattice(lo, hi, l.duration) :
        Disjoint(s, s + l.duration, BusyOnDay(l))}

\* slots is the ascending sequence of the slots of exactly the starts in set
IsAscendingListOf(slots, starts, duration) ==
    /\ Len(slots) = Cardinality(starts)
    /\ \A k \in 1..Len(slots) :
           slots[k][1] \in starts /\ slots[k][2] = slots[k][1] + duration
    /\ StrictlyAscending(slots)

\* C2: the primary result is exactly the ascending sequence of the lattice
\* starts of the window whose slot conflicts with no busy interval of any
\* participant; it is empty when the window is shorter than the duration.
C2_PrimaryIsFreeLattice ==
    Searched =>
        /\ IsAscendingListOf(resp.locals.result_list,
                             FreeStarts(resp.locals.ws_min, resp.locals.we_min,
                                        resp.locals),
                             resp.locals.duration)
        /\ (resp.locals.we_min - resp.locals.ws_min < resp.locals.duration
               => resp.locals.result_list = <<>>)

\* C2 witness: some lattice starts are kept and some rejected, and a kept
\* slot begins exactly where a busy interval ends.
C2_Witness ==
    /\ Searched
    /\ resp.locals.result_list # <<>>
    /\ Len(resp.locals.result_list)
           < Cardinality(Lattice(resp.locals.ws_min, resp.locals.we_min,
                                 resp.locals.duration))
    /\ \E slot \in Elems(resp.locals.result_list), iv \in BusyOnDay(resp.locals) :
           slot[1] = iv[2]

\* twice |midpoint(start, start + duration) - midpoint(ws, we)|
Dist2(s, l) ==
    IF 2 * s + l.duration >= l.ws_min + l.we_min
    THEN (2 * s + l.duration) - (l.ws_min + l.we_min)
    ELSE (l.ws_min + l.we_min) - (2 * s + l.duration)

\* the conflict-free starts of the expanded range
ExpandedFree(l) ==
    FreeStarts(IF l.ws_min < EXTEND_MINUTES THEN 0 ELSE l.ws_min - EXTEND_MINUTES,
               IF l.we_min + EXTEND_MINUTES > DayMinutes THEN DayMinutes
               ELSE l.we_min + EXTEND_MINUTES,
               l)

\* c comes before s in the stable sort by distance of the ascending scan
Before(c, s, l) ==
    Dist2(c, l) < Dist2(s, l) \/ (Dist2(c, l) = Dist2(s, l) /\ c < s)

\* the first min(5, n) of that order
Closest(l) ==
    {s \in ExpandedFree(l) :
        Cardinality({c \in ExpandedFree(l) : Before(c, s, l)}) < TopN}

\* C3: when the primary result is empty, the alternatives are at most 5
\* slots in ascending start order, exactly the first min(5, n) conflict-free
\* candidates of the expanded range in the stable order by midpoint distance;
\* no candidate left out is strictly closer than one included.
C3_AlternativesAreClosestFive ==
    (Searched /\ resp.locals.result_list = <<>>) =>
        /\ Len(resp.locals.alternative_slots) <= TopN
        /\ IsAscendingListOf(resp.locals.alternative_slots, Closest(resp.locals),
                             resp.locals.duration)
        /\ \A out \in ExpandedFree(resp.locals) :
               \A slot \in Elems(resp.locals.alternative_slots) :
                   (\A kept \in Elems(resp.locals.alternative_slots) : kept[1] # out)
                       => Dist2(out, resp.locals) >= Dist2(slot[1], resp.locals)

\* C3 witness: more than 5 candidates, and the cut falls between two
\* candidates at the same distance.
C3_Witness ==
    /\ Searched
    /\ resp.locals.result_list = <<>>
    /\ Len(resp.locals.alternative_slots) = TopN
    /\ \E out \in ExpandedFree(resp.locals) \ Closest(resp.locals) :
           \E slot \in Elems(resp.locals.alternative_slots) :
               Dist2(out, resp.locals) = Dist2(slot[1], resp.locals)

\* C4: every alternative slot lies outside the preferred window: it starts
\* before windowStart or ends after windowEnd.
C4_AlternativesOutsideWindow ==
    Searched =>
        \A slot \in Elems(resp.locals.alternative_slots) :
            slot[1] < resp.locals.ws_min \/ slot[2] > resp.locals.we_min

\* C5: a request that process() does not complete ends as a caught error:
\* the result page with an error message and two empty result lists, the
\* search not run.
C5_ErrorsCaughtAndEmpty ==
    (resp.handler = "process" /\ resp.status # "redirect") =>
        /\ resp.status = "200"
        /\ (resp.error # None =>
               /\ resp.results = <<>>
               /\ resp.alternatives = <<>>
               /\ resp.locals.stage # "done")

\* C6: every slot returned has end - start = duration and start and end in
\* [0, 1440).
C6_SlotsWithinDay ==
    Searched =>
        \A slot \in Elems(resp.locals.result_list)
                        \cup Elems(resp.locals.alternative_slots) :
            /\ slot[2] - slot[1] = resp.locals.duration
            /\ 0 <= slot[1] /\ slot[1] < DayMinutes
            /\ 0 <= slot[2] /\ slot[2] < DayMinutes

\* a cell holds text that is not all blanks
HasText(c) ==
    /\ c.kind # "nan"
    /\ (c.kind = "str" => \E i \in 1..Len(c.chars) : c.chars[i] # " ")

\* both times of the row parse and end > start
UsableRow(row) ==
    /\ time_to_minutes(row["START TIME"]) # None
    /\ time_to_minutes(row["END TIME"]) # None
    /\ time_to_minutes(row["END TIME"])[1] > time_to_minutes(row["START TIME"])[1]

\* the (start, end) of the usable rows of df marked on day, in row order
MarkedIntervals(df, day) ==
    LET Keep(i) == UsableRow(df.rows[i]) /\ HasText(df.rows[i][day])
        kept == SelectSeq([i \in 1..Len(df.rows) |-> i], Keep)
    IN  [k \in 1..Len(kept) |->
            <<time_to_minutes(df.rows[kept[k]]["START TIME"])[1],
              time_to_minutes(df.rows[kept[k]]["END TIME"])[1]>>]

\* C7: the busy map of a sheet with all required columns has exactly the keys
\* MONDAY..SATURDAY, and the list of a day is the row-ordered sequence of the
\* (start, end) of the usable rows whose cell for that day holds text.
C7_BusyMapIsMarkedRows ==
    Rendered =>
        \A t \in DOMAIN resp.locals.busy_map :
            /\ DOMAIN resp.locals.busy_map[t]
                   = {"MONDAY", "TUESDAY", "WEDNESDAY", "THURSDAY", "FRIDAY",
                      "SATURDAY"}
            /\ \A day \in DOMAIN resp.locals.busy_map[t] :
                   resp.locals.busy_map[t][day]
                       = MarkedIntervals(resp.locals.dfs[t], day)

\* C7 witness: a sheet with a skipped row that is marked on a day, a blank
\* cell, and the same interval twice in one day's list.
C7_Witness ==
    /\ Rendered
    /\ \E t \in DOMAIN resp.locals.busy_map :
           /\ \E i \in 1..Len(resp.locals.dfs[t].rows) :
                  /\ ~UsableRow(resp.locals.dfs[t].rows[i])
                  /\ HasText(resp.locals.dfs[t].rows[i]["MONDAY"])
           /\ \E j, k \in 1..Len(resp.locals.busy_map[t]["MONDAY"]) :
                  /\ j < k
                  /\ resp.locals.busy_map[t]["MONDAY"][j]
                         = resp.locals.busy_map[t]["MONDAY"][k]
    /\ \E t \in DOMAIN resp.locals.busy_map :
           \E i \in 1..Len(resp.locals.dfs[t].rows) :
               /\ UsableRow(resp.locals.dfs[t].rows[i])
               /\ resp.locals.dfs[t].rows[i]["TUESDAY"].kind = "str"
               /\ ~HasText(resp.locals.dfs[t].rows[i]["TUESDAY"])

\* C8: every interval build_busy_map stores is made of minutes of the day:
\* 0 <= start < end < 1440.
C8_IntervalsWithinDay ==
    Rendered =>
        \A t \in DOMAIN resp.locals.busy_map :
            \A day \in DOMAIN resp.locals.busy_map[t] :
                \A iv \in Elems(resp.locals.busy_map[t][day]) :
                    0 <= iv[1] /\ iv[1] < iv[2] /\ iv[2] < DayMinutes

\* the display text "H:MM AM/PM" taken apart
ShownHalf(text) == Split(text, " ")[2]

ShownHour(text) == NumVal(Split(Split(text, " ")[1], ":")[1])

ShownMinute(text) == Split(Split(text, " ")[1], ":")[2]

\* C9: for every minute m of the day, time_to_minutes(to_hhmm(m)) = m; the
\* text shows hour 12 for hours 0 and 12, 1..11 for 13..23, AM exactly below
\* noon; None is shown as "Invalid".
C9_FormatParseRoundTrip ==
    /\ (conv.stage = "parsed" /\ conv.minutes # None) =>
           /\ conv.parsed = conv.minutes
           /\ ShownHour(conv.text)
                  = (IF (conv.minutes[1] \div 60) % 12 = 0 THEN 12
                     ELSE (conv.minutes[1] \div 60) % 12)
           /\ Len(ShownMinute(conv.text)) = 2
           /\ NumVal(ShownMinute(conv.text)) = conv.minutes[1] % 60
           /\ (ShownHalf(conv.text) = <<"A", "M">>) = (conv.minutes[1] < 12 * 60)
           /\ ShownHalf(conv.text) \in {<<"A", "M">>, <<"P", "M">>}
    /\ (conv.stage # "idle" /\ conv.minutes = None) =>
           conv.text = <<"I", "n", "v", "a", "l", "i", "d">>

\* C9 witness: a minute of the hour after noon went there and back.
C9_Witness ==
    /\ conv.stage = "parsed"
    /\ conv.minutes # None
    /\ conv.minutes[1] \div 60 = 12
    /\ conv.parsed = conv.minutes

\* C10: a lookup in temp_sheets never returns an override whose date is
\* before the current date.
C10_NoExpiredOverrideRead ==
    \A key \in resp.read :
        ParseDate(key[2]) = None \/ ParseDate(key[2])[1] >= resp.date

====
